---- MODULE Spec2Model ----
(***************************************************************************)
(* ModificationSafeIterationVector (src/ModificationSafeIterationVector.h) *)
(* as a state machine: the std::vector it wraps (m_base), the registry of  *)
(* iterator objects (m_iterators), the iterators' positions and the debug  *)
(* bounds shadow, in a build where NDEBUG is not defined, so that          *)
(* _MODIFICATION_SAFE_ITERATION_VECTOR_BOUNDS_CHECKING is on and a failed  *)
(* assert() aborts the process.                                            *)
(*                                                                         *)
(* Pointers are integers counted in elements.  A position is a pointer     *)
(* into (or next to) the buffer of m_base; the element a position denotes  *)
(* is the one at index m_pos - m_base.data().                              *)
(*                                                                         *)
(* The header is a template that no translation unit of src/ instantiates, *)
(* and a few of its statements are ill-formed as written.  They are        *)
(* modelled by the call their arguments spell out:                         *)
(*   m_base.insert(val)                  -> insert at m_base.begin()+offset *)
(*   iterator(m_base.data() + k)         -> iterator(m_base.data() + k, this) *)
(*   last.pos                            -> last.m_pos                      *)
(*   the registry test of iteratorCount   -> if (i != nullptr)              *)
(*   the unnamed temporary of operator+    -> rv(m_pos + offset, m_vec)     *)
(* _HAS_CXX20 is taken as not set, so the six relational operators of      *)
(* lines 171-226 are the ones compiled.                                    *)
(*                                                                         *)
(* ModelCache (src/ModelCache.cpp) is modelled beside it: the map m_models *)
(* from model names to the models FindModel loaded, and Flush.  Of the     *)
(* loader FindModel sees two outcomes, a model or a LoadingError.          *)
(***************************************************************************)
EXTENDS Integers, Sequences, FiniteSets, TLC

\* ---------------------------------------------------------------- bounds
\* Largest number of elements a vector holds in the model.
MaxSize == 3
\* Number of iterator objects the caller can hold at once.
NumHandles == 2
\* Longest registry (live entries and tombstones) of a container.
MaxRegistry == 3
\* Number of structural mutation calls (clear and swap included) in a run.
MaxCalls == 3
\* Number of model names FindModel is asked for.
NumNames == 2
\* Number of times the loader runs for one name between two Flush calls.
MaxLoads == 3

\* ------------------------------------------------------------- constants
\* nullptr, and the registry's tombstone.
Null == 0
\* No iterator object: a registry tombstone, or a return value not kept.
NoHandle == Null
\* No element (ghost).
NoElem == Null

\* The two container instances of the model.
Vectors == {1, 2}
Handles == 1..NumHandles
\* Heap addresses the allocator hands out for a vector's buffer.  Every
\* buffer is shorter than the distance between two of them.
Blocks == {10, 20, 30}
\* Values an uninitialised pointer member may hold.
Indeterminate == {0, 99}
\* The model names, and the heap addresses of the NModel objects the loader
\* creates.
Names == 1..NumNames
ModelAddrs == {100, 200, 300}

VARIABLES
  m_base,           \* [Vectors -> [data, elems, cap]]: the wrapped std::vector
  m_iterators,      \* [Vectors -> Seq(Handles \cup {Null})]: the registry
  vec_currentStart, \* [Vectors -> Int]: the container's m_currentStart
  vec_currentEnd,   \* [Vectors -> Int]: the container's m_currentEnd
  alive,            \* [Handles -> BOOLEAN]: the iterator object exists
  m_pos,            \* [Handles -> Int]
  m_vec,            \* [Handles -> Vectors \cup {Null}]
  m_currentStart,   \* [Handles -> Int]: the iterator's m_currentStart
  tgt,              \* ghost: the element each iterator was last aimed at
  failure,          \* "none", or the assertion that aborted the process
  calls,            \* ghost: structural mutation calls made so far
  pc,               \* the caller: "free", or its place in the loop of LoopSpec
  lastOp,           \* ghost: the call that produced this state
  m_models,         \* ModelCache::m_models: a function from the cached names
  attempts,         \* ghost: [Names -> Nat], loader runs since the last Flush
  loaded            \* ghost: [Names -> Nat], those that returned a model

\* The variables of the ModelCache and those of the vectors.
cacheVars == <<m_models, attempts, loaded>>

vectorVars == <<m_base, m_iterators, vec_currentStart, vec_currentEnd, alive,
                m_pos, m_vec, m_currentStart, tgt, failure, calls>>

vars == <<m_base, m_iterators, vec_currentStart, vec_currentEnd, alive,
          m_pos, m_vec, m_currentStart, tgt, failure, calls, pc, lastOp,
          m_models, attempts, loaded>>

\* ----------------------------------------------------------------- helpers
Max(a, b) == IF a >= b THEN a ELSE b
Range(s) == {s[i] : i \in 1..Len(s)}
MinOf(S) == CHOOSE x \in S : \A y \in S : x <= y

\* Index (0-based) of element id e in sequence s; -1 when absent.
IndexOf(s, e) ==
  IF e \in Range(s) THEN (CHOOSE i \in 1..Len(s) : s[i] = e) - 1 ELSE 0 - 1

\* Element identities (ghost).  A vector of n elements holds the identities
\* 1..n in order; a call that adds k elements gives them the identities
\* n+1..n+k, and after the call the elements are renamed to 1..n' in their
\* new order (Renamed), every iterator's target with them (Retarget).
FreshIds(elems, n) == [i \in 1..n |-> Len(elems) + i]

Renamed(b) == [b EXCEPT !.elems = [i \in 1..Len(b.elems) |-> i]]

\* The record of a call (ghost): its name and arguments, what it returned,
\* and the arguments of the rebase broadcast it made, if it made one.
OpRec(op, v, h, g, a, b) ==
  [op |-> op, v |-> v, h |-> h, g |-> g, a |-> a, b |-> b,
   ret |-> 0, res |-> FALSE,
   offset |-> 0, insert_ptr |-> 0, insert_size |-> 0]

\* No assertion has failed: assert() aborts the process, nothing runs after.
Running == failure = "none"

\* ------------------------------------------------------------ std::vector
\* data(), size(), capacity() of the wrapped vector.
Data(v) == m_base[v].data
Size(v) == Len(m_base[v].elems)
Capacity(v) == m_base[v].cap

\* The buffer the allocator returns next: first fit, the lowest address no
\* vector of the model owns.
FreeBlocks == {MinOf(Blocks \ {m_base[v].data : v \in Vectors})}

\* std::vector growth when n more elements do not fit (size + max(size, n)).
GrownCap(b, n) == Len(b.elems) + Max(Len(b.elems), n)

\* std::vector::insert(begin()+idx, ...) of the elements ids; blk is the
\* buffer the allocator returns if the vector has to grow.
VecInsert(b, idx, ids, blk) ==
  LET n == Len(ids)
      es == SubSeq(b.elems, 1, idx) \o ids \o SubSeq(b.elems, idx + 1, Len(b.elems))
  IN IF n = 0 THEN b
     ELSE IF Len(b.elems) + n > b.cap
          THEN [data |-> blk, elems |-> es, cap |-> GrownCap(b, n)]
          ELSE [b EXCEPT !.elems = es]

\* std::vector::erase(begin()+i, begin()+j).
VecErase(b, i, j) ==
  [b EXCEPT !.elems = SubSeq(b.elems, 1, i) \o SubSeq(b.elems, j + 1, Len(b.elems))]

\* std::vector::reserve(n).
VecReserve(b, n, blk) ==
  IF n > b.cap THEN [b EXCEPT !.data = blk, !.cap = n] ELSE b

\* std::vector::shrink_to_fit().
VecShrinkToFit(b, blk) ==
  IF b.cap = Len(b.elems) THEN b
  ELSE IF Len(b.elems) = 0 THEN [data |-> Null, elems |-> <<>>, cap |-> 0]
       ELSE [b EXCEPT !.data = blk, !.cap = Len(b.elems)]

\* std::vector::resize(n).
VecResize(b, n, blk) ==
  IF n > Len(b.elems)
  THEN VecInsert(b, Len(b.elems), FreshIds(b.elems, n - Len(b.elems)), blk)
  ELSE [b EXCEPT !.elems = SubSeq(b.elems, 1, n)]

\* ------------------------------------------------------------- the registry
\* addIterator that pushes the pointer twice.
addIteratorTwice(reg, h) == Append(Append(reg, h), h)

\* ModificationSafeIterationVector::addIterator
addIterator(reg, h) == Append(reg, h)

\* A trim that empties the registry.
TrimEverything(reg) == <<>>

\* The trailing run of tombstones removed.
RECURSIVE TrimTrailing(_)
TrimTrailing(reg) ==
  IF Len(reg) > 0 /\ reg[Len(reg)] = Null
  THEN TrimTrailing(SubSeq(reg, 1, Len(reg) - 1))
  ELSE reg

\* removeIterator that closes the gap instead of leaving a tombstone.
removeIteratorCompacts(reg, h) == SelectSeq(reg, LAMBDA x : x # h /\ x # Null)

\* removeIterator that leaves the registry as it is.
removeIteratorKeepsSlot(reg, h) == reg

\* ModificationSafeIterationVector::removeIterator
removeIterator(reg, h) ==
  TrimTrailing([i \in 1..Len(reg) |-> IF reg[i] = h THEN Null ELSE reg[i]])

\* iteratorCount with its test inverted: the tombstones are counted.
iteratorCountTombstones(v) ==
  Cardinality({i \in 1..Len(m_iterators[v]) : m_iterators[v][i] = Null})

\* ModificationSafeIterationVector::iteratorCount
iteratorCount(v) ==
  Cardinality({i \in 1..Len(m_iterators[v]) : m_iterators[v][i] # Null})

\* The iterator object h is in the registry of the container it refers to.
Registered(h) ==
  /\ alive[h]
  /\ m_vec[h] \in Vectors
  /\ h \in Range(m_iterators[m_vec[h]])

\* *m_currentEnd of an iterator: it points at the m_currentEnd member of
\* the container it was constructed (or assigned) from.
ItCurrentEnd(h) == vec_currentEnd[m_vec[h]]

\* The element at address p of a vector with base b (ghost).
ElemAt(b, p) ==
  IF p >= b.data /\ p < b.data + Len(b.elems) THEN b.elems[p - b.data + 1] ELSE NoElem

\* ----------------------------------------------------------------- rebase
\* A rebase that leaves an iterator at the insertion point where it is.
rebaseStrictlyAfter(pos, offset, insert_ptr, insert_size) ==
  LET p == pos + offset
  IN IF insert_size # 0 /\ p > insert_ptr THEN p + insert_size ELSE p

\* ModificationSafeIterationVectorConstIterator::rebase, the position.
rebase(pos, offset, insert_ptr, insert_size) ==
  LET p == pos + offset
  IN IF insert_size # 0 /\ p >= insert_ptr THEN p + insert_size ELSE p

\* The two assertions that end rebase.
rebaseAsserts(pos, start, end) == pos >= start /\ pos <= end

\* The loop of completeRealloc from registry slot k on: st carries the
\* positions and shadow starts so far; the first failed assertion aborts,
\* leaving the later iterators as they were.
RECURSIVE RebaseFrom(_, _, _, _, _, _, _)
RebaseFrom(reg, k, offset, insert_ptr, insert_size, end, st) ==
  IF k > Len(reg) THEN st
  ELSE IF reg[k] = Null
       THEN RebaseFrom(reg, k + 1, offset, insert_ptr, insert_size, end, st)
       ELSE LET h == reg[k]
                p == rebase(st.pos[h], offset, insert_ptr, insert_size)
                c == st.start[h] + offset
                nst == [st EXCEPT !.pos[h] = p, !.start[h] = c]
            IN IF rebaseAsserts(p, c, end)
               THEN RebaseFrom(reg, k + 1, offset, insert_ptr, insert_size, end, nst)
               ELSE [nst EXCEPT !.fail = TRUE]

\* The shadow end of the container after completeRealloc's update.
shadowEnd(old, offset, newStart, newSize, insert_size) ==
  (IF offset # 0 THEN newStart + newSize ELSE old) + insert_size

\* ModificationSafeIterationVector::completeRealloc on container v whose
\* m_base is already nb: the new shadow, positions and whether an assertion
\* failed.
completeRealloc(v, nb, preStart, insert_pos, insert_size) ==
  LET newSize == Len(nb.elems)
      newStart == IF newSize > 0 THEN nb.data ELSE Null
      offset == newStart - preStart
      same == [vstart |-> vec_currentStart[v], vend |-> vec_currentEnd[v],
               pos |-> m_pos, start |-> m_currentStart, fail |-> FALSE,
               offset |-> 0, insert_ptr |-> 0, insert_size |-> 0]
  IN IF offset = 0 /\ insert_size = 0 THEN same
     ELSE LET vs == IF offset # 0 THEN newStart ELSE vec_currentStart[v]
              ve == shadowEnd(vec_currentEnd[v], offset, newStart, newSize, insert_size)
              st == RebaseFrom(m_iterators[v], 1, offset, newStart + insert_pos,
                               insert_size, ve,
                               [pos |-> m_pos, start |-> m_currentStart, fail |-> FALSE])
          IN [vstart |-> vs, vend |-> ve, pos |-> st.pos, start |-> st.start,
              fail |-> st.fail, offset |-> offset,
              insert_ptr |-> newStart + insert_pos, insert_size |-> insert_size]

\* Ghost: after m_base of v became nb, an iterator of v keeps its target
\* only while that element is still in the vector, under its new name.
Retarget(v, nb) ==
  [h \in Handles |->
     IF m_vec[h] = v
     THEN IF tgt[h] \in Range(nb.elems) THEN IndexOf(nb.elems, tgt[h]) + 1 ELSE NoElem
     ELSE tgt[h]]

\* A structural mutation of v: m_base becomes nb, completeRealloc runs, and
\* (when the call returns an iterator and the caller keeps it in r) the
\* returned iterator is constructed at index retIdx.
Mutate(v, op, nb, preStart, insert_pos, insert_size, r, retIdx) ==
  LET cr == completeRealloc(v, nb, preStart, insert_pos, insert_size)
      keep == r # NoHandle /\ ~cr.fail
      rt == Retarget(v, nb)
  IN /\ Running
     /\ calls < MaxCalls
     /\ calls' = calls + 1
     /\ m_base' = [m_base EXCEPT ![v] = Renamed(nb)]
     /\ vec_currentStart' = [vec_currentStart EXCEPT ![v] = cr.vstart]
     /\ vec_currentEnd' = [vec_currentEnd EXCEPT ![v] = cr.vend]
     /\ failure' = IF cr.fail THEN "rebase" ELSE failure
     /\ lastOp' = [op EXCEPT !.ret = IF cr.fail THEN 0 ELSE nb.data + retIdx,
                            !.offset = cr.offset,
                            !.insert_ptr = cr.insert_ptr,
                            !.insert_size = cr.insert_size]
     /\ IF keep
        THEN /\ alive' = [alive EXCEPT ![r] = TRUE]
             /\ m_pos' = [cr.pos EXCEPT ![r] = nb.data + retIdx]
             /\ m_vec' = [m_vec EXCEPT ![r] = v]
             /\ m_currentStart' = [cr.start EXCEPT ![r] = nb.data]
             /\ m_iterators' = [m_iterators EXCEPT ![v] = addIterator(@, r)]
             /\ tgt' = [rt EXCEPT ![r] = ElemAt(Renamed(nb), nb.data + retIdx)]
        ELSE /\ m_pos' = cr.pos
             /\ m_currentStart' = cr.start
             /\ tgt' = rt
             /\ UNCHANGED <<alive, m_vec, m_iterators>>

\* --------------------------------------------------------- caller's choices
\* The slot a newly constructed iterator object takes.
FreeSlots ==
  LET free == {h \in Handles : ~alive[h]}
  IN IF free = {} THEN {} ELSE {MinOf(free)}

\* Container v has room in its registry for one more iterator (tombstones
\* below a live entry are never reclaimed, so the registry of a real run can
\* grow without bound).
HasRoom(v) == Len(m_iterators[v]) < MaxRegistry

\* Where the caller may keep the iterator a call on v returns: nowhere (the
\* temporary registers and deregisters at once), or a new object.
KeepIn(v) == {NoHandle} \cup (IF HasRoom(v) THEN FreeSlots ELSE {})

\* h is a valid position argument of container v: in [begin, end].
ValidPos(v, h) ==
  /\ alive[h]
  /\ m_vec[h] = v
  /\ m_pos[h] >= Data(v)
  /\ m_pos[h] <= Data(v) + Size(v)

\* h denotes an element of v: in [begin, end).
ValidElem(v, h) == ValidPos(v, h) /\ m_pos[h] < Data(v) + Size(v)

\* --------------------------------------------------------- iterator objects
\* The constructor (lines 236-245), used by begin(), end(), cbegin(), cend().
Construct(v, h, pos, op) ==
  /\ Running
  /\ ~alive[h]
  /\ HasRoom(v)
  /\ alive' = [alive EXCEPT ![h] = TRUE]
  /\ m_pos' = [m_pos EXCEPT ![h] = pos]
  /\ m_vec' = [m_vec EXCEPT ![h] = v]
  /\ m_currentStart' = [m_currentStart EXCEPT ![h] = Data(v)]
  /\ m_iterators' = [m_iterators EXCEPT ![v] = addIterator(@, h)]
  /\ tgt' = [tgt EXCEPT ![h] = ElemAt(m_base[v], pos)]
  /\ lastOp' = op
  /\ UNCHANGED <<m_base, vec_currentStart, vec_currentEnd, failure, calls>>

\* begin() / cbegin()
Begin(v, h) == Construct(v, h, Data(v), OpRec("begin", v, h, NoHandle, 0, 0))

\* end() / cend()
End(v, h) == Construct(v, h, Data(v) + Size(v), OpRec("end", v, h, NoHandle, 0, 0))

\* The destructor (lines 48-51).
Destroy(h) ==
  /\ Running
  /\ alive[h]
  /\ alive' = [alive EXCEPT ![h] = FALSE]
  /\ m_iterators' = [m_iterators EXCEPT ![m_vec[h]] = removeIterator(@, h)]
  /\ m_pos' = [m_pos EXCEPT ![h] = Null]
  /\ m_vec' = [m_vec EXCEPT ![h] = Null]
  /\ m_currentStart' = [m_currentStart EXCEPT ![h] = Null]
  /\ tgt' = [tgt EXCEPT ![h] = NoElem]
  /\ lastOp' = OpRec("destroy", m_vec[h], h, NoHandle, 0, 0)
  /\ UNCHANGED <<m_base, vec_currentStart, vec_currentEnd, failure, calls>>

\* The copy constructor.  The class declares none, so the compiler supplies
\* the member-wise one: g takes the members of h (lines 229-234) and nothing
\* calls addIterator for it.
Copy(h, g) ==
  /\ Running
  /\ alive[h]
  /\ ~alive[g]
  /\ alive' = [alive EXCEPT ![g] = TRUE]
  /\ m_pos' = [m_pos EXCEPT ![g] = m_pos[h]]
  /\ m_vec' = [m_vec EXCEPT ![g] = m_vec[h]]
  /\ m_currentStart' = [m_currentStart EXCEPT ![g] = m_currentStart[h]]
  /\ tgt' = [tgt EXCEPT ![g] = tgt[h]]
  /\ lastOp' = OpRec("copy", m_vec[h], h, g, 0, 0)
  /\ UNCHANGED <<m_base, m_iterators, vec_currentStart, vec_currentEnd, failure,
                 calls>>

\* operator= (lines 33-46): h = g.  The record keeps the container h
\* referred to before the call in a.
Assign(h, g) ==
  /\ Running
  /\ alive[h]
  /\ alive[g]
  /\ m_vec[h] # m_vec[g] => HasRoom(m_vec[g])
  /\ m_pos' = [m_pos EXCEPT ![h] = m_pos[g]]
  /\ m_iterators' =
       IF m_vec[h] # m_vec[g]
       THEN [m_iterators EXCEPT ![m_vec[h]] = removeIterator(@, h),
                                ![m_vec[g]] = addIterator(@, h)]
       ELSE m_iterators
  /\ m_vec' = [m_vec EXCEPT ![h] = m_vec[g]]
  /\ m_currentStart' = [m_currentStart EXCEPT ![h] = m_currentStart[g]]
  /\ tgt' = [tgt EXCEPT ![h] = tgt[g]]
  /\ lastOp' = OpRec("assign", m_vec[g], h, g, m_vec[h], 0)
  /\ UNCHANGED <<m_base, vec_currentStart, vec_currentEnd, alive, failure, calls>>

\* The assertion of operator++ (line 74).
incrAssert(h) == m_pos[h] < ItCurrentEnd(h)

\* Prefix operator++ (lines 71-78).
increment(h) ==
  /\ Running
  /\ alive[h]
  /\ lastOp' = OpRec("incr", m_vec[h], h, NoHandle, 0, 0)
  /\ IF incrAssert(h)
     THEN /\ m_pos' = [m_pos EXCEPT ![h] = @ + 1]
          /\ tgt' = [tgt EXCEPT ![h] = ElemAt(m_base[m_vec[h]], m_pos[h] + 1)]
          /\ UNCHANGED failure
     ELSE /\ failure' = "incr"
          /\ UNCHANGED <<m_pos, tgt>>
  /\ UNCHANGED <<m_base, m_iterators, vec_currentStart, vec_currentEnd, alive,
                 m_vec, m_currentStart, calls>>

\* ++it by a caller that only advances an iterator denoting an element.
Incr(h) == alive[h] /\ ValidElem(m_vec[h], h) /\ increment(h)

\* The assertions of operator* and operator-> (lines 56-57, 65-66) and, with
\* an offset, of the const operator[] (lines 164-165).
derefAsserts(h, offset) ==
  /\ m_pos[h] + offset >= m_currentStart[h]
  /\ m_pos[h] + offset < ItCurrentEnd(h)

\* A read through the iterator that does not move it.
Access(h, offset, op) ==
  /\ Running
  /\ alive[h]
  /\ lastOp' = [OpRec(op, m_vec[h], h, NoHandle, offset, 0)
                  EXCEPT !.res = derefAsserts(h, offset)]
  /\ failure' = IF derefAsserts(h, offset) THEN failure ELSE op
  /\ UNCHANGED <<m_base, m_iterators, vec_currentStart, vec_currentEnd, alive,
                 m_pos, m_vec, m_currentStart, tgt, calls>>

\* operator* / operator->
Deref(h) == Access(h, 0, "deref")

\* operator[]
Subscript(h, offset) == Access(h, offset, "subscript")

\* ------------------------------------------------------- cursor operations
\* Postfix ++ and --, + offset and [offset], of the const iterator and of the
\* mutable iterator that derives from it.
CursorOps == {"post_incr", "post_decr", "plus", "index"}

\* The position the operation computes: the iterator's own new position
\* (postfix ++ and --), that of the iterator it returns (+), or the one it
\* reads ([]).  Both classes compute the same one.
cursorPos(kind, pos, offset) ==
  CASE kind = "post_incr" -> pos + 1
    [] kind = "post_decr" -> pos - 1
    [] kind = "plus" -> pos + offset
    [] kind = "index" -> pos + offset

\* The assertions of the const iterator: operator++(int) (line 83),
\* operator--(int) (line 101), operator+ (lines 124-125), operator[]
\* (lines 164-165).
constCursorAsserts(kind, h, offset) ==
  CASE kind = "post_incr" -> m_pos[h] < ItCurrentEnd(h)
    [] kind = "post_decr" -> m_pos[h] > m_currentStart[h]
    [] kind = "plus" -> /\ m_pos[h] + offset >= m_currentStart[h]
                        /\ m_pos[h] + offset <= ItCurrentEnd(h)
    [] kind = "index" -> derefAsserts(h, offset)

\* The assertions of the mutable iterator: operator++(int) (line 295),
\* operator--(int) (line 313, made after the decrement of line 311),
\* operator+ (lines 328-329), operator[] (lines 351-352).
mutableCursorAsserts(kind, h, offset) ==
  CASE kind = "post_incr" -> m_pos[h] < ItCurrentEnd(h)
    [] kind = "post_decr" -> m_pos[h] - 1 > m_currentStart[h]
    [] kind = "plus" -> /\ m_pos[h] + offset >= m_currentStart[h]
                        /\ m_pos[h] + offset < ItCurrentEnd(h)
    [] kind = "index" -> /\ m_pos[h] + offset > m_currentStart[h]
                         /\ m_pos[h] + offset < ItCurrentEnd(h)

\* The iterator has moved when the call ends or aborts: postfix ++ moves
\* after its assertion, postfix -- after it in the const class and before it
\* in the mutable one.
cursorMoves(kind, mutable, passes) ==
  \/ kind \in {"post_incr", "post_decr"} /\ passes
  \/ kind = "post_decr" /\ mutable

\* A cursor operation on iterator h, of the const class or (mutable) of the
\* mutable class; the class of an iterator object matters to no other call,
\* so it is an input here.  The iterator an operation returns is a
\* temporary: it registers last and deregisters at once.  The caller applies
\* them to iterators that are in [begin, end] of their container.
Cursor(h, kind, offset, mutable) ==
  LET passes == IF mutable THEN mutableCursorAsserts(kind, h, offset)
                ELSE constCursorAsserts(kind, h, offset)
      np == cursorPos(kind, m_pos[h], offset)
  IN /\ Running
     /\ alive[h]
     /\ ValidPos(m_vec[h], h)
     /\ lastOp' = [OpRec(kind, m_vec[h], h, NoHandle, offset, IF mutable THEN 1 ELSE 0)
                     EXCEPT !.res = passes, !.ret = IF passes THEN np ELSE 0]
     /\ failure' = IF passes THEN failure ELSE "cursor"
     /\ IF cursorMoves(kind, mutable, passes)
        THEN /\ m_pos' = [m_pos EXCEPT ![h] = np]
             /\ tgt' = [tgt EXCEPT ![h] = ElemAt(m_base[m_vec[h]], np)]
        ELSE UNCHANGED <<m_pos, tgt>>
     /\ UNCHANGED <<m_base, m_iterators, vec_currentStart, vec_currentEnd, alive,
                    m_vec, m_currentStart, calls>>

\* ------------------------------------------------------ structural mutations
\* The insertion_size the fill insert hands to completeRealloc (line 529).
fillInsertSize(count) == 1

\* An insert of the elements ids before the position of h, announcing
\* insert_size to completeRealloc.
InsertAt(v, h, ids, insert_size, r, op) ==
  /\ ValidPos(v, h)
  /\ Size(v) + Len(ids) <= MaxSize
  /\ \E blk \in FreeBlocks :
       LET offset == m_pos[h] - Data(v)
           pre == Data(v)
           nb == VecInsert(m_base[v], offset, ids, blk)
       IN Mutate(v, OpRec(op, v, NoHandle, NoHandle, offset, Len(ids)), nb, pre, offset,
                 insert_size, r, offset)

\* insert(pos, val), both overloads (lines 505-521)
InsertOne(v, h, r) ==
  InsertAt(v, h, FreshIds(m_base[v].elems, 1), 1, r, "insert")

\* insert(pos, count, value) (lines 523-531)
InsertFill(v, h, count, r) ==
  InsertAt(v, h, FreshIds(m_base[v].elems, count), fillInsertSize(count), r,
           "insert_fill")

\* insert(pos, start, last) (lines 533-541)
InsertRange(v, h, n, r) ==
  InsertAt(v, h, FreshIds(m_base[v].elems, n), n, r, "insert_range")

\* insert(pos, ilist) (lines 543-550)
InsertIList(v, h, n, r) ==
  InsertAt(v, h, FreshIds(m_base[v].elems, n), n, r, "insert_range")

\* emplace(pos, args...) (lines 552-560)
Emplace(v, h, r) ==
  InsertAt(v, h, FreshIds(m_base[v].elems, 1), 1, r, "insert")

\* erase(pos) (lines 562-568)
EraseOne(v, h, r) ==
  /\ ValidElem(v, h)
  /\ LET offset == m_pos[h] - Data(v)
         nb == VecErase(m_base[v], offset, offset + 1)
     IN Mutate(v, OpRec("erase", v, NoHandle, NoHandle, offset, 1), nb, nb.data, offset,
               0 - 1, r, offset)

\* erase(first, last) (lines 570-576)
EraseRange(v, h, g, r) ==
  /\ ValidPos(v, h)
  /\ ValidPos(v, g)
  /\ m_pos[h] <= m_pos[g]
  /\ LET offset == m_pos[h] - Data(v)
         lastIdx == m_pos[g] - Data(v)
         nb == VecErase(m_base[v], offset, lastIdx)
     IN Mutate(v, OpRec("erase_range", v, NoHandle, NoHandle, offset, lastIdx - offset), nb,
               nb.data, offset, m_pos[h] - m_pos[g], r, offset)

\* push_back(value), both overloads (lines 578-592)
PushBack(v) ==
  /\ Size(v) < MaxSize
  /\ \E blk \in FreeBlocks :
       LET offset == Size(v)
           pre == Data(v)
           nb == VecInsert(m_base[v], Size(v), FreshIds(m_base[v].elems, 1), blk)
       IN Mutate(v, OpRec("push_back", v, NoHandle, NoHandle, offset, 1), nb, pre,
                 offset, 1, NoHandle, 0)

\* pop_back() (lines 601-609)
PopBack(v) ==
  IF Size(v) = 0
  THEN /\ Running
       /\ calls < MaxCalls
       /\ calls' = calls + 1
       /\ failure' = "pop_back"
       /\ lastOp' = OpRec("pop_back", v, NoHandle, NoHandle, 0, 0)
       /\ UNCHANGED <<m_base, m_iterators, vec_currentStart, vec_currentEnd,
                      alive, m_pos, m_vec, m_currentStart, tgt>>
  ELSE LET pre == Data(v)
           nb == VecErase(m_base[v], Size(v) - 1, Size(v))
       IN Mutate(v, OpRec("pop_back", v, NoHandle, NoHandle, Size(v) - 1, 1), nb,
                 pre, Len(nb.elems), 0 - 1, NoHandle, 0)

\* resize(count), both overloads (lines 611-646)
Resize(v, count) ==
  LET initial_size == Size(v)
      pre == Data(v)
  IN IF count = initial_size
     THEN /\ Running
          /\ calls < MaxCalls
          /\ calls' = calls + 1
          /\ lastOp' = OpRec("resize", v, NoHandle, NoHandle, count, initial_size)
          /\ UNCHANGED <<m_base, m_iterators, vec_currentStart, vec_currentEnd,
                         alive, m_pos, m_vec, m_currentStart, tgt, failure>>
     ELSE \E blk \in FreeBlocks :
            LET nb == VecResize(m_base[v], count, blk)
                offset == IF count > initial_size THEN initial_size ELSE Len(nb.elems)
            IN Mutate(v, OpRec("resize", v, NoHandle, NoHandle, count, initial_size),
                      nb, pre, offset, Len(nb.elems) - initial_size, NoHandle, 0)

\* reserve(cap) (lines 484-489)
Reserve(v, cap) ==
  \E blk \in FreeBlocks :
    LET pre == Data(v)
        nb == VecReserve(m_base[v], cap, blk)
    IN Mutate(v, OpRec("reserve", v, NoHandle, NoHandle, cap, Capacity(v)), nb, pre,
              0, 0, NoHandle, 0)

\* shrink_to_fit() (lines 490-495)
ShrinkToFit(v) ==
  \E blk \in FreeBlocks :
    LET pre == Data(v)
        nb == VecShrinkToFit(m_base[v], blk)
    IN Mutate(v, OpRec("shrink_to_fit", v, NoHandle, NoHandle, Size(v), Capacity(v)),
              nb, pre, 0, 0, NoHandle, 0)

\* ------------------------------------------------------------ clear and swap
\* clear() (lines 498-504)
Clear(v) ==
  /\ Running
  /\ calls < MaxCalls
  /\ calls' = calls + 1
  /\ lastOp' = OpRec("clear", v, NoHandle, NoHandle, 0, 0)
  /\ IF iteratorCount(v) = 0
     THEN /\ m_base' = [m_base EXCEPT ![v].elems = <<>>]
          /\ tgt' = [h \in Handles |-> IF m_vec[h] = v THEN NoElem ELSE tgt[h]]
          /\ UNCHANGED failure
     ELSE /\ failure' = "clear"
          /\ UNCHANGED <<m_base, tgt>>
  /\ UNCHANGED <<m_iterators, vec_currentStart, vec_currentEnd, alive, m_pos,
                 m_vec, m_currentStart>>

\* A std::vector of the caller with n elements, its buffer at blk.
Unmanaged(n, blk) ==
  IF n = 0 THEN [data |-> Null, elems |-> <<>>, cap |-> 0]
  ELSE [data |-> blk, elems |-> [i \in 1..n |-> i], cap |-> n]

\* swap(v &other) with a std::vector of the caller (lines 648-658); the
\* caller's vector is dropped afterwards.
SwapUnmanaged(v, n) ==
  /\ Running
  /\ calls < MaxCalls
  /\ calls' = calls + 1
  /\ lastOp' = OpRec("swap", v, NoHandle, NoHandle, n, 0)
  /\ IF iteratorCount(v) = 0
     THEN \E blk \in FreeBlocks :
            LET nb == Unmanaged(n, blk)
            IN /\ m_base' = [m_base EXCEPT ![v] = nb]
               /\ vec_currentEnd' = [vec_currentEnd EXCEPT ![v] = nb.data + Len(nb.elems)]
               /\ tgt' = [h \in Handles |-> IF m_vec[h] = v THEN NoElem ELSE tgt[h]]
               /\ UNCHANGED failure
     ELSE /\ failure' = "swap"
          /\ UNCHANGED <<m_base, vec_currentEnd, tgt>>
  /\ UNCHANGED <<m_iterators, vec_currentStart, alive, m_pos, m_vec, m_currentStart>>

\* swap(ModificationSafeIterationVector<T> &other) (lines 659-668): asserts
\* on this container, then other.swap(m_base) asserts on the other one.
SwapVectors(v, w) ==
  /\ Running
  /\ v # w
  /\ calls < MaxCalls
  /\ calls' = calls + 1
  /\ lastOp' = OpRec("swap_vectors", v, NoHandle, NoHandle, w, 0)
  /\ IF iteratorCount(v) # 0
     THEN /\ failure' = "swap"
          /\ UNCHANGED <<m_base, vec_currentEnd, tgt>>
     ELSE IF iteratorCount(w) # 0
          THEN /\ failure' = "swap_other"
               /\ UNCHANGED <<m_base, vec_currentEnd, tgt>>
          ELSE /\ m_base' = [m_base EXCEPT ![v] = m_base[w], ![w] = m_base[v]]
               /\ vec_currentEnd' =
                    [vec_currentEnd EXCEPT ![v] = Data(w) + Size(w),
                                           ![w] = Data(v) + Size(v)]
               /\ tgt' = [h \in Handles |-> NoElem]
               /\ UNCHANGED failure
  /\ UNCHANGED <<m_iterators, vec_currentStart, alive, m_pos, m_vec, m_currentStart>>

\* ---------------------------------------------------- difference, comparison
Relations == {"eq", "ne", "lt", "gt", "le", "ge"}

\* The assertion each relational operator makes (lines 174-223).
cmpAssert(rel, h, g) ==
  IF rel = "ge" THEN m_pos[g] = m_pos[h] ELSE m_vec[g] = m_vec[h]

\* The value each relational operator returns (lines 176-225).
cmpValue(rel, h, g) ==
  CASE rel = "eq" -> m_pos[h] = m_pos[g]
    [] rel = "ne" -> m_pos[h] # m_pos[g]
    [] rel = "lt" -> m_pos[h] < m_pos[g]
    [] rel = "gt" -> m_pos[h] > m_pos[g]
    [] rel = "le" -> m_pos[h] <= m_pos[g]
    [] rel = "ge" -> m_pos[h] >= m_pos[g]

\* h rel g
Compare(rel, h, g) ==
  /\ Running
  /\ alive[h]
  /\ alive[g]
  /\ lastOp' = [OpRec(rel, m_vec[h], h, g, 0, 0)
                  EXCEPT !.res = cmpAssert(rel, h, g) /\ cmpValue(rel, h, g)]
  /\ failure' = IF cmpAssert(rel, h, g) THEN failure ELSE "compare"
  /\ UNCHANGED <<m_base, m_iterators, vec_currentStart, vec_currentEnd, alive,
                 m_pos, m_vec, m_currentStart, tgt, calls>>

\* The assertion of operator-(other) (line 156).
diffAssert(h, g) == m_vec[g] = m_vec[h]

\* h - g (lines 153-159)
Difference(h, g) ==
  /\ Running
  /\ alive[h]
  /\ alive[g]
  /\ lastOp' = [OpRec("diff", m_vec[h], h, g, 0, 0)
                  EXCEPT !.ret = IF diffAssert(h, g) THEN m_pos[h] - m_pos[g] ELSE 0]
  /\ failure' = IF diffAssert(h, g) THEN failure ELSE "compare"
  /\ UNCHANGED <<m_base, m_iterators, vec_currentStart, vec_currentEnd, alive,
                 m_pos, m_vec, m_currentStart, tgt, calls>>

\* ----------------------------------------------------------------- ModelCache
\* m_models.find(name) != m_models.end() (lines 17-19), with its negation
\* turned into a constant as a faulty variant.
CachedNever(models, name) == FALSE

Cached(models, name) == name \in DOMAIN models

\* The models the cache owns.
ModelsOf(models) == {models[n] : n \in DOMAIN models}

\* m_models[name] = m (line 23)
Store(models, name, m) ==
  [n \in DOMAIN models \cup {name} |-> IF n = name THEN m ELSE models[n]]

\* A catch clause that leaves a null entry behind.
onLoadingErrorStoresNull(models, name) == Store(models, name, Null)

\* The catch clause (lines 25-27): nothing is stored, and
\* ModelNotFoundException is thrown.
onLoadingError(models, name) == models

\* The NModel objects loader.LoadModel(name) may return (line 22): any
\* address the heap does not hold yet.
LoadModel == ModelAddrs \ ModelsOf(m_models)

\* ModelCache::FindModel(name) (lines 15-30).  The record keeps the name in
\* a, the model returned in ret (Null when it threw), whether it threw
\* ModelNotFoundException in b, and whether the loader ran in res.
FindModel(name) ==
  /\ UNCHANGED <<vectorVars, pc>>
  /\ IF Cached(m_models, name)
     THEN /\ lastOp' = [OpRec("find", Null, NoHandle, NoHandle, name, 0)
                          EXCEPT !.ret = m_models[name]]
          /\ UNCHANGED cacheVars
     ELSE /\ attempts[name] < MaxLoads
          /\ attempts' = [attempts EXCEPT ![name] = @ + 1]
          /\ \/ \E m \in LoadModel :
                  /\ m_models' = Store(m_models, name, m)
                  /\ loaded' = [loaded EXCEPT ![name] = @ + 1]
                  /\ lastOp' = [OpRec("find", Null, NoHandle, NoHandle, name, 0)
                                  EXCEPT !.ret = m, !.res = TRUE]
             \/ /\ m_models' = onLoadingError(m_models, name)
                /\ UNCHANGED loaded
                /\ lastOp' = [OpRec("find", Null, NoHandle, NoHandle, name, 1)
                                EXCEPT !.res = TRUE]

\* ModelCache::Flush() (lines 32-38), also run by the destructor.
Flush ==
  /\ UNCHANGED <<vectorVars, pc>>
  /\ m_models' = <<>>
  /\ attempts' = [n \in Names |-> 0]
  /\ loaded' = [n \in Names |-> 0]
  /\ lastOp' = OpRec("flush", Null, NoHandle, NoHandle, 0, 0)

\* ------------------------------------------------------------ specifications
\* Default-constructed containers, no iterator objects.  The containers have
\* no constructor that sets m_currentStart and m_currentEnd (lines 731-732):
\* those of the containers in U start indeterminate, the others zeroed.
InitWith(U) ==
  /\ m_base = [v \in Vectors |-> [data |-> Null, elems |-> <<>>, cap |-> 0]]
  /\ m_iterators = [v \in Vectors |-> <<>>]
  /\ vec_currentStart = [v \in Vectors |-> Null]
  /\ vec_currentEnd \in {f \in [Vectors -> Indeterminate] :
                           \A v \in Vectors \ U : f[v] = Null}
  /\ alive = [h \in Handles |-> FALSE]
  /\ m_pos = [h \in Handles |-> Null]
  /\ m_vec = [h \in Handles |-> Null]
  /\ m_currentStart = [h \in Handles |-> Null]
  /\ tgt = [h \in Handles |-> NoElem]
  /\ failure = "none"
  /\ calls = 0
  /\ lastOp = OpRec("init", Null, NoHandle, NoHandle, 0, 0)
  /\ m_models = <<>>
  /\ attempts = [n \in Names |-> 0]
  /\ loaded = [n \in Names |-> 0]

\* A call on the vectors by a caller that is not inside the loop of LoopSpec.
Call(A) == A /\ UNCHANGED <<pc, m_models, attempts, loaded>>

\* One container, its iterators, every structural mutation but clear and swap.
Init == InitWith({1}) /\ pc = "free"

Next ==
  \/ \E h \in FreeSlots : Call(Begin(1, h))
  \/ \E h \in FreeSlots : Call(End(1, h))
  \/ \E h \in Handles : Call(Destroy(h))
  \/ \E h \in Handles : Call(Incr(h))
  \/ \E h \in Handles, r \in KeepIn(1) : Call(InsertOne(1, h, r))
  \/ \E h \in Handles, r \in KeepIn(1), n \in 0..2 : Call(InsertFill(1, h, n, r))
  \/ \E h \in Handles, r \in KeepIn(1), n \in 0..2 : Call(InsertRange(1, h, n, r))
  \/ \E h \in Handles, r \in KeepIn(1), n \in 0..2 : Call(InsertIList(1, h, n, r))
  \/ \E h \in Handles, r \in KeepIn(1) : Call(Emplace(1, h, r))
  \/ \E h \in Handles, r \in KeepIn(1) : Call(EraseOne(1, h, r))
  \/ \E h, g \in Handles, r \in KeepIn(1) : Call(EraseRange(1, h, g, r))
  \/ Call(PushBack(1))
  \/ Call(PopBack(1))
  \/ \E n \in 0..MaxSize : Call(Resize(1, n))
  \/ \E n \in 0..MaxSize : Call(Reserve(1, n))
  \/ Call(ShrinkToFit(1))

Spec == Init /\ [][Next]_vars

\* One container: insertions, removals, reserve, clear and swap with a
\* std::vector, and reads through the iterators.
AccessNext ==
  \/ \E h \in FreeSlots : Call(Begin(1, h))
  \/ \E h \in FreeSlots : Call(End(1, h))
  \/ \E h \in Handles : Call(Destroy(h))
  \/ \E h \in Handles : Call(Incr(h))
  \/ \E h \in Handles : Call(Deref(h))
  \/ \E h \in Handles, n \in {0 - 1, 1} : Call(Subscript(h, n))
  \/ \E h \in Handles : Call(InsertOne(1, h, NoHandle))
  \/ \E h \in Handles : Call(EraseOne(1, h, NoHandle))
  \/ Call(PushBack(1))
  \/ Call(PopBack(1))
  \/ \E n \in 0..MaxSize : Call(Reserve(1, n))
  \/ Call(Clear(1))
  \/ \E n \in 0..MaxSize : Call(SwapUnmanaged(1, n))

AccessSpec == Init /\ [][AccessNext]_vars

\* Two containers and their iterators: push_back, clear and both swaps.
PairInit == InitWith(Vectors) /\ pc = "free"

PairNext ==
  \/ \E v \in Vectors, h \in FreeSlots : Call(Begin(v, h))
  \/ \E v \in Vectors, h \in FreeSlots : Call(End(v, h))
  \/ \E h \in Handles : Call(Destroy(h))
  \/ \E h \in Handles : Call(Incr(h))
  \/ \E v \in Vectors : Call(PushBack(v))
  \/ \E v \in Vectors : Call(Clear(v))
  \/ \E v \in Vectors, n \in 0..MaxSize : Call(SwapUnmanaged(v, n))
  \/ \E v, w \in Vectors : Call(SwapVectors(v, w))

PairSpec == PairInit /\ [][PairNext]_vars

\* Two containers and their iterators: push_back, pop_back, and the
\* difference and comparisons of any two iterators.
CmpNext ==
  \/ \E v \in Vectors, h \in FreeSlots : Call(Begin(v, h))
  \/ \E v \in Vectors, h \in FreeSlots : Call(End(v, h))
  \/ \E h \in Handles : Call(Destroy(h))
  \/ \E h \in Handles : Call(Incr(h))
  \/ \E v \in Vectors : Call(PushBack(v))
  \/ \E v \in Vectors : Call(PopBack(v))
  \/ \E rel \in Relations, h, g \in Handles : Call(Compare(rel, h, g))
  \/ \E h, g \in Handles : Call(Difference(h, g))

CmpSpec == PairInit /\ [][CmpNext]_vars

\* Two containers and the life of their iterator objects: construction,
\* copy, assignment and destruction, between push_back and pop_back calls.
HandleNext ==
  \/ \E v \in Vectors, h \in FreeSlots : Call(Begin(v, h))
  \/ \E v \in Vectors, h \in FreeSlots : Call(End(v, h))
  \/ \E h \in Handles, g \in FreeSlots : Call(Copy(h, g))
  \/ \E h, g \in Handles : Call(Assign(h, g))
  \/ \E h \in Handles : Call(Destroy(h))
  \/ \E v \in Vectors : Call(PushBack(v))
  \/ \E v \in Vectors : Call(PopBack(v))

HandleSpec == PairInit /\ [][HandleNext]_vars

\* One container, its iterators, push_back and pop_back, and the cursor
\* operations of both iterator classes.
CursorNext ==
  \/ \E h \in FreeSlots : Call(Begin(1, h))
  \/ \E h \in FreeSlots : Call(End(1, h))
  \/ \E h \in Handles : Call(Destroy(h))
  \/ Call(PushBack(1))
  \/ Call(PopBack(1))
  \/ \E h \in Handles, kind \in CursorOps, n \in (0 - 1)..2, mutable \in BOOLEAN :
       Call(Cursor(h, kind, n, mutable))

CursorSpec == Init /\ [][CursorNext]_vars

\* Two containers and every way an iterator object comes to be: begin() and
\* end(), the iterator insert, emplace and erase return, copy and
\* assignment; destruction; push_back.
RegistryNext ==
  \/ \E v \in Vectors, h \in FreeSlots : Call(Begin(v, h))
  \/ \E v \in Vectors, h \in FreeSlots : Call(End(v, h))
  \/ \E h \in Handles, g \in FreeSlots : Call(Copy(h, g))
  \/ \E h, g \in Handles : Call(Assign(h, g))
  \/ \E h \in Handles : Call(Destroy(h))
  \/ \E v \in Vectors, h \in Handles : \E r \in KeepIn(v) : Call(InsertOne(v, h, r))
  \/ \E v \in Vectors, h \in Handles : \E r \in KeepIn(v) : Call(Emplace(v, h, r))
  \/ \E v \in Vectors, h \in Handles : \E r \in KeepIn(v) : Call(EraseOne(v, h, r))
  \/ \E v \in Vectors : Call(PushBack(v))

RegistrySpec == PairInit /\ [][RegistryNext]_vars

\* The ModelCache and its callers.
CacheNext ==
  \/ \E name \in Names : FindModel(name)
  \/ Flush

CacheInit == InitWith({}) /\ pc = "free"

CacheSpec == CacheInit /\ [][CacheNext]_vars

\* The loop  for (it = begin(); it != end(); ++it) { erase(it) or
\* push_back(x) or nothing }  over a container filled beforehand by
\* push_back or by a swap with a std::vector.
It == MinOf(Handles)

LoopInit == InitWith({1}) /\ pc = "setup"

LoopFill ==
  /\ pc = "setup"
  /\ \/ PushBack(1)
     \/ \E n \in 1..MaxSize : SwapUnmanaged(1, n)
  /\ pc' = "setup"
  /\ UNCHANGED cacheVars

LoopBegin == pc = "setup" /\ Begin(1, It) /\ pc' = "test" /\ UNCHANGED cacheVars

\* it != end(): the temporary end() registers and deregisters, operator!=
\* (lines 188-194) asserts that both refer to one container.
LoopTest ==
  /\ pc = "test"
  /\ Running
  /\ pc' = IF m_pos[It] # Data(1) + Size(1) THEN "body" ELSE "done"
  /\ UNCHANGED cacheVars
  /\ UNCHANGED <<m_base, m_iterators, vec_currentStart, vec_currentEnd, alive,
                 m_pos, m_vec, m_currentStart, tgt, failure, calls, lastOp>>

LoopErase == pc = "body" /\ EraseOne(1, It, NoHandle) /\ pc' = "incr" /\ UNCHANGED cacheVars

LoopPush == pc = "body" /\ PushBack(1) /\ pc' = "incr" /\ UNCHANGED cacheVars

LoopSkip ==
  /\ pc = "body"
  /\ Running
  /\ pc' = "incr"
  /\ UNCHANGED cacheVars
  /\ UNCHANGED <<m_base, m_iterators, vec_currentStart, vec_currentEnd, alive,
                 m_pos, m_vec, m_currentStart, tgt, failure, calls, lastOp>>

LoopIncr == pc = "incr" /\ increment(It) /\ pc' = "test" /\ UNCHANGED cacheVars

LoopNext ==
  \/ LoopFill
  \/ LoopBegin
  \/ LoopTest
  \/ LoopErase
  \/ LoopPush
  \/ LoopSkip
  \/ LoopIncr

\* The loop is the only thread: it runs until it ends or an assertion aborts.
LoopSpec == LoopInit /\ [][LoopNext]_vars /\ WF_vars(LoopNext)

\* ------------------------------------------------------------------ claims
\* The position of iterator h lies in [begin, end] of its container.
InRange(h) ==
  /\ m_pos[h] >= Data(m_vec[h])
  /\ m_pos[h] <= Data(m_vec[h]) + Size(m_vec[h])

\* The calls that go through completeRealloc.
Mutations ==
  {"insert", "insert_fill", "insert_range", "erase", "erase_range", "push_back",
   "pop_back", "resize", "reserve", "shrink_to_fit"}

\* C1: after every insert, emplace, erase, push_back, pop_back, resize,
\* reserve and shrink_to_fit, a registered iterator that pointed at an element
\* still points at that element (its index is the element's index), for as
\* long as the element has not been removed.
C1_HandleFollowsElement ==
  Running =>
    \A h \in Handles :
      Registered(h) /\ tgt[h] # NoElem =>
        m_pos[h] = Data(m_vec[h]) + IndexOf(m_base[m_vec[h]].elems, tgt[h])

\* C2: in every state reached by structural mutations other than clear and
\* swap, every registered iterator's position lies in [data(), data()+size()].
C2_HandleInRange ==
  Running => \A h \in Handles : Registered(h) => InRange(h)

\* C3: after erase(pos) of the element at index a, every registered iterator
\* that pointed at the erased element, and the iterator erase returns, is at
\* index a again (the element that followed, or end()).
C3_EraseMovesToNext ==
  [][lastOp'.op = "erase" /\ calls' = calls + 1 /\ failure' = "none" =>
       /\ lastOp'.ret = Data(1)' + lastOp'.a
       /\ \A h \in Handles :
            Registered(h) /\ m_pos[h] = Data(1) + lastOp'.a =>
              m_pos'[h] = Data(1)' + lastOp'.a]_vars

\* C4: the loop never fails a debug assertion, never gets stuck, and ends
\* with the iterator equal to end().
C4_LoopReachesEnd ==
  /\ pc # "setup" => failure = "none"
  /\ pc = "done" => m_pos[It] = Data(1) + Size(1)
  /\ pc # "done" => ENABLED LoopNext

\* C5: insert, emplace, erase, push_back, pop_back, resize, reserve and
\* shrink_to_fit, called with valid arguments while every registered iterator
\* is in [begin, end], never fail a debug assertion.
C5_MutationsNeverAssert ==
  [][/\ \A h \in Handles : Registered(h) => InRange(h)
     /\ calls' = calls + 1
     /\ lastOp'.op \in Mutations
     /\ ~(lastOp'.op = "pop_back" /\ Size(1) = 0)
     => failure' = "none"]_vars

\* The live (non-tombstone) entries of the registry of v.
LiveEntries(v) == {i \in 1..Len(m_iterators[v]) : m_iterators[v][i] # Null}

ClearOrSwap == {"clear", "swap", "swap_vectors"}

\* The containers whose registry a clear or swap call just made had to find
\* empty of live entries: the container it was called on and, for a swap
\* with another ModificationSafeIterationVector (lastOp.a), that one too.
Checked(op) == IF op.op = "swap_vectors" THEN {op.v, op.a} ELSE {op.v}

\* C6 as stated: clear() and both swap() forms fail an assertion, before the
\* storage is touched, whenever the container they are called on has a live
\* registry entry, and proceed without failure when it has none.
C6_AsStated ==
  [][lastOp'.op \in ClearOrSwap /\ calls' = calls + 1 =>
       IF LiveEntries(lastOp'.v) # {}
       THEN failure' # "none" /\ m_base' = m_base
       ELSE failure' = "none"]_vars

\* C6 (amended): clear() and both swap() forms fail an assertion, before the
\* storage is touched, whenever the container they are called on (or, for
\* swap with another ModificationSafeIterationVector, the other container)
\* has a live registry entry; otherwise they proceed without failure.
C6_ClearSwapGuarded ==
  [][lastOp'.op \in ClearOrSwap /\ calls' = calls + 1 =>
       IF \E v \in Checked(lastOp') : LiveEntries(v) # {}
       THEN failure' # "none" /\ m_base' = m_base /\ vec_currentEnd' = vec_currentEnd
       ELSE failure' = "none"]_vars

\* A clear() stopped by its assertion while the registry holds a tombstone
\* below a live entry.
C6_Witness ==
  /\ lastOp.op = "clear"
  /\ failure = "clear"
  /\ LiveEntries(lastOp.v) # {}
  /\ \E i \in 1..Len(m_iterators[lastOp.v]) : m_iterators[lastOp.v][i] = Null

\* The comparison of two positions that a relational operator stands for.
PosRel(rel, p, q) ==
  CASE rel = "eq" -> p = q
    [] rel = "ne" -> p # q
    [] rel = "lt" -> p < q
    [] rel = "gt" -> p > q
    [] rel = "le" -> p <= q
    [] rel = "ge" -> p >= q

\* C7: every difference and every comparison of two iterators that refer to
\* different containers fails a debug assertion.
C7_CrossContainerAsserts ==
  lastOp.op \in Relations \cup {"diff"} /\ m_vec[lastOp.h] # m_vec[lastOp.g] =>
    failure = "compare"

\* C8: for two iterators of one container, both in [begin, end], each of
\* ==, !=, <, >, <=, >= returns the comparison of their positions and fails
\* no assertion.
C8_SameContainerCompares ==
  /\ lastOp.op \in Relations
  /\ m_vec[lastOp.h] = m_vec[lastOp.g]
  /\ InRange(lastOp.h)
  /\ InRange(lastOp.g)
  => /\ failure = "none"
     /\ lastOp.res = PosRel(lastOp.op, m_pos[lastOp.h], m_pos[lastOp.g])

\* C9: reserve(capacity()), and shrink_to_fit() when the capacity is already
\* size(), leave the position of every iterator unchanged.
C9_NoopReallocKeepsHandles ==
  [][/\ calls' = calls + 1
     /\ \/ lastOp'.op = "reserve" /\ lastOp'.a = Capacity(1)
        \/ lastOp'.op = "shrink_to_fit" /\ Capacity(1) = Size(1)
     => m_pos' = m_pos /\ m_currentStart' = m_currentStart]_vars

\* C10: dereferencing or subscripting a registered iterator passes its
\* assertions exactly when the accessed position is inside
\* [data(), data()+size()) of its container.
C10_AccessChecked ==
  lastOp.op \in {"deref", "subscript"} /\ Registered(lastOp.h) =>
    (lastOp.res <=>
       /\ m_pos[lastOp.h] + lastOp.a >= Data(lastOp.v)
       /\ m_pos[lastOp.h] + lastOp.a < Data(lastOp.v) + Size(lastOp.v))

\* C11: an iterator created as a copy of a registered iterator is itself in
\* the registry of the same container, so that a later structural mutation
\* that fails no assertion leaves the two at one position.
C11_CopyIsRegistered ==
  [][/\ lastOp'.op = "copy" /\ ~alive[lastOp'.g] /\ Registered(lastOp'.h) =>
          /\ m_vec'[lastOp'.g] = m_vec[lastOp'.h]
          /\ lastOp'.g \in Range(m_iterators'[m_vec'[lastOp'.g]])
     /\ calls' = calls + 1 /\ failure' = "none" =>
          \A h, g \in Handles :
            /\ Registered(h)
            /\ alive[g]
            /\ m_vec[g] = m_vec[h]
            /\ m_pos[g] = m_pos[h]
            => m_pos'[g] = m_pos'[h]]_vars

\* The slots of registry reg that hold iterator h.
SlotsIn(reg, h) == {i \in 1..Len(reg) : reg[i] = h}

\* C12: h = g with g of another container takes h out of the registry of
\* its old container and puts it, once, into the registry of g's container,
\* h taking g's position; with g of the same container h takes g's position
\* and every registry is left as it was.
C12_AssignMovesRegistration ==
  [][lastOp'.op = "assign" =>
       LET h == lastOp'.h
           g == lastOp'.g
       IN /\ m_pos'[h] = m_pos[g]
          /\ IF m_vec[h] # m_vec[g]
             THEN /\ SlotsIn(m_iterators'[m_vec[h]], h) = {}
                  /\ Cardinality(SlotsIn(m_iterators'[m_vec[g]], h)) = 1
                  /\ m_vec'[h] = m_vec[g]
                  /\ \A v \in Vectors, k \in Handles \ {h} :
                       (SlotsIn(m_iterators'[v], k) # {}) <=> (SlotsIn(m_iterators[v], k) # {})
             ELSE m_iterators' = m_iterators]_vars

\* An assignment from an iterator of the other container has just moved a
\* registered iterator, at a position inside a buffer.
C12_Witness ==
  /\ lastOp.op = "assign"
  /\ lastOp.a \in Vectors \ {lastOp.v}
  /\ Registered(lastOp.h)
  /\ Registered(lastOp.g)
  /\ m_pos[lastOp.h] = m_pos[lastOp.g]
  /\ m_pos[lastOp.h] # Null
  /\ failure = "none"

\* C13: the destructor takes the iterator out of the registry of its
\* container and leaves every other iterator registered where it was; no
\* registry ever holds an iterator object that no longer exists.
C13_DestroyDeregisters ==
  [][/\ lastOp'.op = "destroy" =>
          LET h == lastOp'.h
          IN /\ SlotsIn(m_iterators'[lastOp'.v], h) = {}
             /\ \A v \in Vectors, k \in Handles \ {h} :
                  (SlotsIn(m_iterators'[v], k) # {}) <=> (SlotsIn(m_iterators[v], k) # {})
     /\ \A k \in Handles, v \in Vectors :
          ~alive'[k] => SlotsIn(m_iterators'[v], k) = {}]_vars

\* An iterator has just been destroyed while a later-registered iterator of
\* the same container lives on, above the tombstone.
C13_Witness ==
  /\ lastOp.op = "destroy"
  /\ ~alive[lastOp.h]
  /\ Null \in Range(m_iterators[lastOp.v])
  /\ \E k \in Handles : Registered(k) /\ m_vec[k] = lastOp.v

\* C14: each of postfix ++, postfix --, + offset and [offset] of the mutable
\* iterator fails an assertion exactly when the same operation of the const
\* iterator fails one from the same position, and otherwise computes the
\* same position.
C14_MutableAsConst ==
  [][lastOp'.op \in CursorOps /\ lastOp'.b = 1 =>
       /\ lastOp'.res <=> constCursorAsserts(lastOp'.op, lastOp'.h, lastOp'.a)
       /\ lastOp'.res => lastOp'.ret = cursorPos(lastOp'.op, m_pos[lastOp'.h], lastOp'.a)]_vars

\* C15 as stated: between two Flush calls the loader runs at most once for
\* a name that loaded successfully, and a FindModel of a cached name returns
\* the cached model.
C15_AsStated ==
  [][/\ \A n \in Names : loaded'[n] >= 1 => attempts'[n] <= 1
     /\ lastOp'.op = "find" /\ lastOp'.a \in DOMAIN m_models =>
          lastOp'.ret = m_models[lastOp'.a]]_vars

\* C15 (amended): between two Flush calls the loader returns a model at most
\* once per name and does not run again for a name once it has; every
\* FindModel of a cached name returns the cached model and leaves the cache
\* as it is.
C15_LoadsOnce ==
  [][/\ \A n \in Names : loaded'[n] <= 1
     /\ lastOp'.op = "find" /\ lastOp'.a \in DOMAIN m_models =>
          /\ lastOp'.ret = m_models[lastOp'.a]
          /\ ~lastOp'.res
          /\ UNCHANGED cacheVars]_vars

\* FindModel has just returned the cached model of a name whose first load
\* had failed before it succeeded.
C15_Witness ==
  /\ lastOp.op = "find"
  /\ ~lastOp.res
  /\ lastOp.a \in DOMAIN m_models
  /\ lastOp.ret = m_models[lastOp.a]
  /\ attempts[lastOp.a] >= 2
  /\ loaded[lastOp.a] = 1

\* C16: when the loader fails, FindModel throws ModelNotFoundException and
\* returns no model, the cache keeps exactly the entries it had, and a
\* FindModel of a name that has no entry runs the loader (again).
C16_FailedLoadLeavesCache ==
  [][lastOp'.op = "find" =>
       /\ lastOp'.res /\ loaded' = loaded =>
            /\ lastOp'.b = 1
            /\ lastOp'.ret = Null
            /\ m_models' = m_models
            /\ lastOp'.a \notin DOMAIN m_models'
       /\ lastOp'.a \notin DOMAIN m_models => lastOp'.res]_vars

\* FindModel has just failed for the second time for one name, while the
\* cache holds the model of another.
C16_Witness ==
  /\ lastOp.op = "find"
  /\ lastOp.b = 1
  /\ attempts[lastOp.a] >= 2
  /\ loaded[lastOp.a] = 0
  /\ DOMAIN m_models # {}

\* The two-step rule: shift by offset, then, if insertionSize is not zero and
\* the shifted position is at or after insertionPoint, shift by insertionSize.
TwoStepRule(p, offset, insertionPoint, insertionSize) ==
  LET shifted == p + offset
      second == IF insertionSize = 0 THEN 0
                ELSE IF shifted < insertionPoint THEN 0 ELSE insertionSize
  IN shifted + second

C18_InsertSizeIsCount ==
  [][/\ calls' = calls + 1
     /\ lastOp'.op \in {"insert", "insert_fill", "insert_range"}
     /\ failure' = "none"
     => /\ lastOp'.insert_size = lastOp'.b
        /\ \A h \in Handles :
             Registered(h) /\ m_pos[h] - Data(1) >= lastOp'.a =>
               m_pos'[h] - Data(1)' = m_pos[h] - Data(1) + lastOp'.b]_vars

\* C19: a registered iterator that equals end() before a push_back,
\* pop_back, insert, erase, resize, reserve or shrink_to_fit that fails no
\* assertion equals end() after it, whatever the size before and after.
C19_EndStaysEnd ==
  [][calls' = calls + 1 /\ lastOp'.op \in Mutations /\ failure' = "none" =>
       \A h \in Handles :
         Registered(h) /\ m_pos[h] = Data(1) + Size(1) =>
           m_pos'[h] = Data(1)' + Size(1)']_vars

\* C20: after every structural mutation, clear and swap that fails no
\* assertion, the shadow end of the container is data() + size() and the
\* shadow start of every registered iterator is data().
C20_ShadowTracksRange ==
  lastOp.op \in Mutations \cup ClearOrSwap /\ failure = "none" =>
    /\ vec_currentEnd[lastOp.v] = Data(lastOp.v) + Size(lastOp.v)
    /\ \A h \in Handles :
         Registered(h) /\ m_vec[h] = lastOp.v => m_currentStart[h] = Data(lastOp.v)

\* Registry new is registry old with the slots of h turned into tombstones
\* and then cut after its last live slot: every slot kept is in its old
\* place, and only tombstones were cut.
Deregistered(old, new, h) ==
  /\ Len(new) <= Len(old)
  /\ \A i \in 1..Len(new) : new[i] = IF old[i] = h THEN Null ELSE old[i]
  /\ \A i \in (Len(new) + 1)..Len(old) : old[i] \in {h, Null}

\* Registry reg is empty or ends in a live iterator.
EndsLive(reg) == Len(reg) = 0 \/ reg[Len(reg)] # Null

\* C21: a deregistration (by the destructor, or by an assignment from an
\* iterator of another container) turns the iterator's slot into a tombstone
\* and cuts only the trailing tombstones, every other slot staying in place;
\* and every registry is always empty or ends in a live iterator.
C21_TrailingTombstonesOnly ==
  [][/\ lastOp'.op = "destroy" =>
          Deregistered(m_iterators[lastOp'.v], m_iterators'[lastOp'.v], lastOp'.h)
     /\ lastOp'.op = "assign" /\ lastOp'.a # lastOp'.v =>
          Deregistered(m_iterators[lastOp'.a], m_iterators'[lastOp'.a], lastOp'.h)
     /\ \A v \in Vectors : EndsLive(m_iterators[v]) /\ EndsLive(m_iterators'[v])]_vars

\* A destructor has just left a second tombstone below the live iterator
\* that ends the registry.
C21_Witness ==
  /\ lastOp.op = "destroy"
  /\ Cardinality({i \in 1..Len(m_iterators[lastOp.v]) :
                    m_iterators[lastOp.v][i] = Null}) >= 2
  /\ EndsLive(m_iterators[lastOp.v])
  /\ m_iterators[lastOp.v] # <<>>

\* Iterator k takes exactly one slot of the registry (in regs) of the
\* container it refers to (in vec), and no slot of any other registry.
OneSlot(regs, vec, k) ==
  /\ vec[k] \in Vectors
  /\ \A v \in Vectors :
       Cardinality(SlotsIn(regs[v], k)) = IF v = vec[k] THEN 1 ELSE 0

\* The calls that hand the caller a new iterator object in lastOp.h
\* (begin, end) or, when it keeps the one returned, at lastOp.ret.
Obtained(op, k, alv, alv2, pos2) ==
  \/ op.op \in {"begin", "end"} /\ k = op.h
  \/ op.op \in {"insert", "erase"} /\ ~alv[k] /\ alv2[k] /\ pos2[k] = op.ret

\* C22: an iterator obtained from begin, end, insert, emplace or erase, or
\* moved to another container by assignment, takes exactly one slot of the
\* registry of the container it refers to and none elsewhere, and keeps it
\* until it is destroyed; so iteratorCount() is the number of live iterators
\* registered with the container, no slot holds an iterator that is gone or
\* refers elsewhere, and a broadcast that fails no assertion moves each
\* registered iterator by the rebase rule once, within the call.
C22_OneSlotPerHandle ==
  [][/\ \A k \in Handles :
          /\ Obtained(lastOp', k, alive, alive', m_pos') => OneSlot(m_iterators', m_vec', k)
          /\ lastOp'.op = "assign" /\ lastOp'.h = k /\ lastOp'.a # lastOp'.v =>
               OneSlot(m_iterators', m_vec', k)
          /\ alive[k] /\ alive'[k] /\ OneSlot(m_iterators, m_vec, k) =>
               OneSlot(m_iterators', m_vec', k)
          /\ \A v \in Vectors :
               SlotsIn(m_iterators'[v], k) # {} =>
                 alive'[k] /\ OneSlot(m_iterators', m_vec', k)
     /\ \A v \in Vectors :
          iteratorCount(v)' =
            Cardinality({k \in Handles : alive'[k] /\ m_vec'[k] = v
                                         /\ SlotsIn(m_iterators'[v], k) # {}})
     /\ calls' = calls + 1 /\ failure' = "none" =>
          \A k \in Handles :
            OneSlot(m_iterators, m_vec, k) /\ m_vec[k] = lastOp'.v =>
              m_pos'[k] = TwoStepRule(m_pos[k], lastOp'.offset, lastOp'.insert_ptr,
                                      lastOp'.insert_size)]_vars

\* A reallocating insert has just returned an iterator the caller keeps,
\* registered after the iterator that was its position argument.
C22_Witness ==
  /\ lastOp.op = "insert"
  /\ lastOp.offset # 0
  /\ failure = "none"
  /\ iteratorCount(lastOp.v) = NumHandles
  /\ \E k \in Handles : m_pos[k] = lastOp.ret /\ Registered(k)
  /\ \E k \in Handles : m_pos[k] = lastOp.ret + 1 /\ Registered(k)

====
